---- MODULE Spec2Model ----
(***************************************************************************)
(* Job lifecycle, single-worker slot and streaming block compression of    *)
(* chanvas (src/app.py, src/canvas_scraper.py).                            *)
(*                                                                         *)
(* Spec         : the job state machine, JOB_LOCK, the crawler's status    *)
(*                callbacks, the boot-time recovery pass and a process     *)
(*                restart.                                                 *)
(* FairSpec     : one process run of the same workers under fair           *)
(*                scheduling (liveness of the slot).                       *)
(* SpecCompress : one run of stream_compress_corpus_blocks and of the      *)
(*                caller's handling of its result, over bounded corpora.   *)
(* SpecTrunc    : truncate_to_tokens applied once and twice.               *)
(* SpecChat     : one invocation of openai_chat and what its caller does.  *)
(* SpecRel      : _release_job_slot called in any state of the slot.       *)
(* SpecFiles    : the threads that append to a job's log and stream files. *)
(*                                                                         *)
(* In Spec and FairSpec a call of _update_job made by run_scrape_and_index  *)
(* or run_test_and_index may raise (UpdateJobRaises, HandlerRaises); in    *)
(* SpecCompress the only call that raises is the summarization call.       *)
(***************************************************************************)
EXTENDS Integers, Sequences, FiniteSets, TLC

VARIABLES
    status,     \* Job.status of every job row (src/models.py)
    pc,         \* position of every job's worker thread
    kind,       \* which entry point created the job
    owner,      \* Job.user_id of every job row
    log,        \* the job's log file: its last line ("" while the file is empty)
    exc,        \* TRUE once an exception left the try body of run_*_and_index
    JOB_LOCK,   \* threading.Lock(): TRUE when locked
    njobs,      \* number of job rows created so far
    sched,      \* the scheduler thread: "boot" before the recovery pass, then "loop"
    documents,  \* jobs for which a Document row was committed
    environ     \* os.environ of the process: the per-job OCEAN_* variables

lifeVars == <<status, pc, kind, owner, log, exc, JOB_LOCK, njobs, sched, documents, environ>>

VARIABLES
    segs,         \* the corpus: character length of every course segment's text, in order
    block_tokens, \* the block size the caller passes (20000 or 25000)
    blanks,       \* the blocks <<segment, block>> whose decoded text is all whitespace
    fill,         \* how far an accepted response uses its max_tokens: "full" or "one"
    cpc,          \* position inside the caller and stream_compress_corpus_blocks
    cstatus,      \* Job.status of the job that runs the compression
    idx,          \* current segment (1-based, as enumerate(seg_infos, 1))
    blk,          \* current block of the segment (0-based, as range(num_blocks))
    stream,       \* the compressed stream file: the records appended, in order
    calls,        \* summarization requests issued for the current block
    submitted,    \* the blocks <<segment, block>> for which a first request was issued
    raised_at,    \* the block whose summarization call raised, or <<0, 0>>
    max_out,      \* "max_tokens" of the payload of the block's requests
    first_out     \* out_est of the first response for the block (0: none yet)

compVars ==
    <<segs, block_tokens, blanks, fill, cpc, cstatus, idx, blk, stream, calls,
      submitted, raised_at, max_out, first_out>>

VARIABLES
    ientry,       \* the indexing operation: "persist" or "upload" ("idle": none)
    ipc,          \* position inside the indexing operation
    icourse,      \* the document being indexed (upload: the course of the loop)
    nchunks,      \* per document: len(text_chunks), 0 when nothing is to be embedded
    nvecs,        \* per document: number of vectors in the embeddings response
    embedded,     \* documents for which the embeddings response was received
    pending,      \* per document: Chunk rows added to the session, not committed
    doc_pending,  \* Document rows added to the session, not committed
    chunks_db,    \* per document: committed Chunk rows
    doc_db,       \* committed Document rows
    iresult       \* how the operation ended, as its caller sees it

indexVars ==
    <<ientry, ipc, icourse, nchunks, nvecs, embedded, pending, doc_pending,
      chunks_db, doc_db, iresult>>

VARIABLES
    raw,          \* the raw stream: its lines, in order
    pos,          \* number of lines _split_stream_by_course has processed
    spc,          \* position of _split_stream_by_course: "loop", "returned" ("idle": not called)
    cur_id,       \* "" for None
    cur_name,     \* "" for None
    buf,          \* the lines accumulated for the open segment (their positions in raw)
    parts,        \* the segments emitted so far
    closed        \* per emitted segment: what closed it and at which line

splitVars == <<raw, pos, spc, cur_id, cur_name, buf, parts, closed>>

VARIABLES
    text_len,     \* truncate_to_tokens: number of characters of its argument text
    max_tokens,   \* truncate_to_tokens: its argument max_tokens
    tpc,          \* "call", "once" (applied), "twice" (applied to its own result) ("idle": not called)
    out1,         \* length of the prefix the first application returned (-1: none yet)
    out2          \* length of the prefix the second application returned (-1: none yet)

truncVars == <<text_len, max_tokens, tpc, out1, out2>>

VARIABLES
    attempt,      \* openai_chat: the loop variable attempt
    responses,    \* openai_chat: what each attempt met, in order (a status code, 0 for a network error)
    sleeps,       \* openai_chat: number of backoff sleeps taken
    chpc,         \* "post", "returned", "raised", "handled" ("idle": not called)
    chres,        \* what openai_chat returned ("" while none)
    site,         \* the call site: "summarize" (stream_compress_corpus_blocks), "classes" (extract_classes_list)
    caller_status,\* status of the job whose worker made the call
    caller_log,   \* last line of that job's log
    appended      \* the text the caller appended to the job's stream file as a block ("" while none)

chatVars ==
    <<attempt, responses, sleeps, chpc, chres, site, caller_status, caller_log, appended>>

VARIABLES
    rlock,        \* the slot as _release_job_slot's callers see it: TRUE when locked
    rpc,          \* per caller: "out", "checked" (locked() returned TRUE), "idle" when not modelled
    rerr,         \* TRUE when an exception left _release_job_slot
    rhist         \* the calls completed so far: the slot before and after each

relVars == <<rlock, rpc, rerr, rhist>>

VARIABLES
    wpc,          \* the job's worker: "queued", "crawl", "compress", "post", "done" ("idle": not modelled)
    flog,         \* the job's log file: per appended line, the thread that appended it and where the worker was
    fstream,      \* the job's compressed stream file: the same, per appended record
    classes_file, \* TRUE when the user's classes.json holds a non-empty list
    has_document, \* TRUE when the user has a Document of an earlier job
    hpc           \* the chat route's request handler: "none", "extract"

fileVars == <<wpc, flog, fstream, classes_file, has_document, hpc>>

toolVars == <<truncVars, chatVars, relVars, fileVars>>

\* what the actions of one part of the model leave alone
nonLifeVars == <<compVars, indexVars, splitVars, toolVars>>
nonCompVars == <<lifeVars, indexVars, splitVars, toolVars>>
nonIndexVars == <<lifeVars, compVars, splitVars, toolVars>>
nonSplitVars == <<lifeVars, compVars, indexVars, toolVars>>
nonTruncVars == <<lifeVars, compVars, indexVars, splitVars, chatVars, relVars, fileVars>>
nonChatVars == <<lifeVars, compVars, indexVars, splitVars, truncVars, relVars, fileVars>>
nonRelVars == <<lifeVars, compVars, indexVars, splitVars, truncVars, chatVars, fileVars>>
nonFileVars == <<lifeVars, compVars, indexVars, splitVars, truncVars, chatVars, relVars>>

vars == <<lifeVars, compVars, indexVars, splitVars, toolVars>>

(***************************************************************************)
(* Bounds of the model.                                                    *)
(***************************************************************************)
NumJobs == 2

Jobs == 1..NumJobs

(***************************************************************************)
(* Status strings written by the code.                                     *)
(***************************************************************************)
QueuedWaiting == "queued (waiting for another user's scrape to complete)"
DuoStatus == "DUO CODE: 123456"

Terminal == {"completed", "failed", "skipped"}

\* the eight states of the documented state machine
DocumentedStatuses ==
    {"queued", "starting", "logging_in", "compressing", "summarizing",
     "completed", "failed", "skipped"}

\* what the crawler reports through cb("status", ...) and cb("duo", ...)
CrawlerStatuses ==
    {"checking_session", "login_required", "logging_in", "waiting_duo",
     "logged_in", "discovering_courses", "completed", "failed", DuoStatus}

SessionStatuses == {"session_starting", "session_scraping", "scraping"}

\* the status list of _resume_interrupted_jobs and of _has_active_job
ActiveList == {"queued", "starting", "logging_in", "compressing"}

Kinds == {"scrape", "test", "auto", "session"}

Users == {"u1", "u2"}

Created == 1..njobs

\* worker positions at which the worker has returned from _wait_for_job_slot
\* and has not yet called _release_job_slot
RunPcs ==
    {"run", "r_login", "crawl", "c_check", "c_login", "c_code", "c_duo", "c_disc",
     "c_courses", "crawled_none", "crawled_ok", "compress", "blocks",
     "compressed", "post", "exc", "finally",
     "t_compress", "s_cookies", "s_scrape", "s_crawl", "s_compress"}

InCriticalSection(j) == pc[j] \in RunPcs

\* the worker owns the lock: acquired inside _wait_for_job_slot, or running
HoldsSlot(j) == pc[j] = "acquired" \/ InCriticalSection(j)

(***************************************************************************)
(* _update_job: status (when given) and one appended log line (when        *)
(* given).                                                                 *)
(***************************************************************************)
UpdateStatus(old, new) == IF new # "" THEN new ELSE old

\* _append_job_log_file, called once per line: the file's last line afterwards
AppendLog(l, lines) == IF lines = <<>> THEN l ELSE lines[Len(lines)]

InitialStatusMutant(k) == "session_starting"

\* the status a job row is created with
InitialStatus(k) == IF k = "session" THEN "session_starting" ELSE "queued"

\* _resume_interrupted_jobs, for one row
ResumeStatus(s) == IF s \in ActiveList THEN "queued" ELSE s

CanAcquireMutant(locked) == TRUE

\* JOB_LOCK.acquire(blocking=False) / acquire(timeout=...): succeeds iff unlocked
CanAcquire(locked) == ~locked

ReleasedLockMutant(locked) == locked

\* _release_job_slot: if JOB_LOCK.locked(): JOB_LOCK.release()
ReleasedLock(locked) == FALSE

\* the status written when the crawler returned no input_path
NoInputStatus(k) == IF k = "auto" THEN "skipped" ELSE "failed"

\* the status written by the top-level handler of run_*_and_index
HandlerStatus == "failed"

\* the OCEAN_* variables before any job has set them
NoEnviron == [OCEAN_SCRAPE_STREAM_PATH |-> <<>>, OCEAN_PERSIST_SESSION_DIR |-> "",
              OCEAN_REUSE_SESSION_ONLY |-> FALSE]

\* scrape_{user_id}_{job_id}.txt: the path names the user and the job
_scrape_stream_file_path(user_id, job_id) == <<user_id, job_id>>

\* the persistent session directory of one user
_session_dir(user_id) == user_id

Init0 ==
    /\ status = [j \in Jobs |-> ""]
    /\ pc = [j \in Jobs |-> "none"]
    /\ kind = [j \in Jobs |-> "none"]
    /\ owner = [j \in Jobs |-> "none"]
    /\ log = [j \in Jobs |-> ""]
    /\ exc = [j \in Jobs |-> FALSE]
    /\ JOB_LOCK = FALSE
    /\ njobs = 0
    /\ sched = "boot"
    /\ documents = {}
    /\ environ = NoEnviron

CompIdle ==
    /\ segs = <<>>
    /\ block_tokens = 0
    /\ blanks = {}
    /\ fill = "full"
    /\ cpc = "idle"
    /\ cstatus = ""
    /\ idx = 0
    /\ blk = 0
    /\ stream = <<>>
    /\ calls = 0
    /\ submitted = {}
    /\ raised_at = <<0, 0>>
    /\ max_out = 0
    /\ first_out = 0

IndexIdle ==
    /\ ientry = "idle"
    /\ ipc = "idle"
    /\ icourse = 0
    /\ nchunks = <<>>
    /\ nvecs = <<>>
    /\ embedded = {}
    /\ pending = <<>>
    /\ doc_pending = {}
    /\ chunks_db = <<>>
    /\ doc_db = {}
    /\ iresult = ""

SplitIdle ==
    /\ raw = <<>>
    /\ pos = 0
    /\ spc = "idle"
    /\ cur_id = ""
    /\ cur_name = ""
    /\ buf = <<>>
    /\ parts = <<>>
    /\ closed = <<>>

TruncIdle ==
    /\ text_len = 0
    /\ max_tokens = 0
    /\ tpc = "idle"
    /\ out1 = -1
    /\ out2 = -1

ChatIdle ==
    /\ attempt = 0
    /\ responses = <<>>
    /\ sleeps = 0
    /\ chpc = "idle"
    /\ chres = ""
    /\ site = ""
    /\ caller_status = ""
    /\ caller_log = ""
    /\ appended = ""

RelIdle ==
    /\ rlock = FALSE
    /\ rpc = <<>>
    /\ rerr = FALSE
    /\ rhist = <<>>

FileIdle ==
    /\ wpc = "idle"
    /\ flog = <<>>
    /\ fstream = <<>>
    /\ classes_file = FALSE
    /\ has_document = FALSE
    /\ hpc = "none"

ToolIdle == TruncIdle /\ ChatIdle /\ RelIdle /\ FileIdle

Init == Init0 /\ CompIdle /\ IndexIdle /\ SplitIdle /\ ToolIdle

\* one step of job j's worker: new position, status ("" keeps it), log lines
Step(j, to, st, lines) ==
    /\ pc' = [pc EXCEPT ![j] = to]
    /\ status' = [status EXCEPT ![j] = UpdateStatus(@, st)]
    /\ log' = [log EXCEPT ![j] = AppendLog(@, lines)]
    /\ UNCHANGED nonLifeVars

(***************************************************************************)
(* Enqueueing: start_job, start_test, api session login, the scheduler.    *)
(***************************************************************************)
CreateJob(k, u) ==
    /\ njobs < NumJobs
    /\ njobs' = njobs + 1
    /\ kind' = [kind EXCEPT ![njobs + 1] = k]
    /\ owner' = [owner EXCEPT ![njobs + 1] = u]
    /\ status' = [status EXCEPT ![njobs + 1] = InitialStatus(k)]
    /\ pc' = [pc EXCEPT ![njobs + 1] = "wait"]
    /\ UNCHANGED <<log, exc, JOB_LOCK, sched, documents, environ>>
    /\ UNCHANGED nonLifeVars

start_job == \E u \in Users : CreateJob("scrape", u)

start_test == \E u \in Users : CreateJob("test", u)

api_session_login == \E u \in Users : CreateJob("session", u)

\* Job.user_id == user_id and Job.status.in_([...]): some row of the user matches
_has_active_job(u) == \E j \in Created : owner[j] = u /\ status[j] \in ActiveList

\* _scheduler_loop, for one due AutoScrape record with a warm session directory:
\* skipped when _has_active_job, else _enqueue_job_for_user(..., reuse_session_only=True)
SchedulerEnqueues(u) ==
    /\ sched = "loop"
    /\ ~_has_active_job(u)
    /\ CreateJob("auto", u)

SchedulerEnqueue == \E u \in Users : SchedulerEnqueues(u)


\* what a plain worker step leaves alone
Rest == UNCHANGED <<kind, owner, exc, JOB_LOCK, njobs, sched, documents, environ>>

(***************************************************************************)
(* _wait_for_job_slot and _release_job_slot.                               *)
(***************************************************************************)
\* fast path: JOB_LOCK.acquire(blocking=False)
WaitFastPath(j) ==
    /\ pc[j] = "wait"
    /\ IF CanAcquire(JOB_LOCK)
       THEN /\ JOB_LOCK' = TRUE
            /\ pc' = [pc EXCEPT ![j] = "acquired"]
       ELSE /\ JOB_LOCK' = JOB_LOCK
            /\ pc' = [pc EXCEPT ![j] = "contended"]
    /\ UNCHANGED <<status, log, kind, owner, exc, njobs, sched, documents, environ>>
    /\ UNCHANGED nonLifeVars

\* _update_job(status="starting", log_line="Acquired worker slot"); return
WaitAcquired(j) ==
    /\ pc[j] = "acquired"
    /\ Step(j, "run", "starting", <<"Acquired worker slot">>)
    /\ Rest

\* the slot was busy: tell the user the job is waiting
WaitContended(j) ==
    /\ pc[j] = "contended"
    /\ Step(j, "poll", QueuedWaiting, <<"Waiting for previous job to finish">>)
    /\ Rest

\* got = JOB_LOCK.acquire(timeout=poll_seconds), got is True
PollAcquire(j) ==
    /\ pc[j] = "poll"
    /\ CanAcquire(JOB_LOCK)
    /\ JOB_LOCK' = TRUE
    /\ pc' = [pc EXCEPT ![j] = "acquired"]
    /\ UNCHANGED <<status, log, kind, owner, exc, njobs, sched, documents, environ>>
    /\ UNCHANGED nonLifeVars

\* the acquire timed out: periodic status refresh, then poll again
PollTimeout(j) ==
    /\ pc[j] = "poll"
    /\ JOB_LOCK
    /\ Step(j, "poll", QueuedWaiting, <<"Still waiting for previous job to finish">>)
    /\ UNCHANGED <<kind, owner, exc, JOB_LOCK, njobs, sched, documents, environ>>

\* the finally blocks of run_*_and_index, then the worker's _release_job_slot()
Release(j) ==
    /\ pc[j] = "finally"
    /\ JOB_LOCK' = ReleasedLock(JOB_LOCK)
    /\ pc' = [pc EXCEPT ![j] = "done"]
    /\ UNCHANGED <<status, log, kind, owner, exc, njobs, sched, documents, environ>>
    /\ UNCHANGED nonLifeVars

(***************************************************************************)
(* run_scrape_and_index (kinds "scrape" and "auto") up to the crawler.     *)
(***************************************************************************)
ScrapeConfigure(j) ==
    /\ pc[j] = "run"
    /\ kind[j] \in {"scrape", "auto"}
    /\ Step(j, "r_login", "starting", <<"Configured Canvas filters">>)
    /\ Rest

\* status "logging_in", then os.environ[...] = the job's stream path, the
\* user's session directory and the reuse-only flag
ScrapeLoggingIn(j) ==
    /\ pc[j] = "r_login"
    /\ Step(j, "crawl", "logging_in",
            <<"Fetching all current-term courses", "Live scrape stream file", "Session dir">>)
    /\ environ' = [OCEAN_SCRAPE_STREAM_PATH |-> _scrape_stream_file_path(owner[j], j),
                   OCEAN_PERSIST_SESSION_DIR |-> _session_dir(owner[j]),
                   OCEAN_REUSE_SESSION_ONLY |-> (kind[j] = "auto")]
    /\ UNCHANGED <<kind, owner, exc, JOB_LOCK, njobs, sched, documents>>

(***************************************************************************)
(* run_canvas_scrape_job with cb = _status_callback_factory(job_id):       *)
(* cb("status", m) is _update_job(status=m), cb("log", m) appends a line,  *)
(* cb("duo", c) writes status "DUO CODE: c" and a line.                    *)
(***************************************************************************)
\* build_driver is called before the crawler's try: its exception propagates
CrawlBuildDriverFails(j) ==
    /\ pc[j] = "crawl"
    /\ exc' = [exc EXCEPT ![j] = TRUE]
    /\ Step(j, "exc", "", <<>>)
    /\ UNCHANGED <<kind, owner, JOB_LOCK, njobs, sched, documents, environ>>

CrawlCheckSession(j) ==
    /\ pc[j] = "crawl"
    /\ Step(j, "c_check", "checking_session", <<>>)
    /\ Rest

\* a warm session (or bridge cookies) is logged in
CrawlSessionWarm(j) ==
    /\ pc[j] = "c_check"
    /\ Step(j, "c_disc", "logged_in", <<>>)
    /\ Rest

\* not logged in and no credentials (reuse-only): skip the login, return no input_path
CrawlNoSession(j) ==
    /\ pc[j] = "c_check"
    /\ kind[j] = "auto"
    /\ Step(j, "crawled_none", "login_required",
            <<"[log] No valid Canvas session and reuse-only mode set -> skipping login">>)
    /\ Rest

\* not logged in, credentials given: log in
CrawlLoginStart(j) ==
    /\ pc[j] = "c_check"
    /\ kind[j] = "scrape"
    /\ Step(j, "c_login", "logging_in", <<>>)
    /\ Rest

\* login_canvas shows a Duo code: cb("duo", code), cb("log", ...)
CrawlDuoCode(j) ==
    /\ pc[j] = "c_login"
    /\ Step(j, "c_code", DuoStatus,
            <<"Duo code captured", "[log] Duo pairing/verification code">>)
    /\ Rest

\* login_canvas: cb("status", "waiting_duo"), with or without a code shown before
CrawlWaitingDuo(j) ==
    /\ pc[j] \in {"c_login", "c_code"}
    /\ Step(j, "c_duo", "waiting_duo", <<>>)
    /\ Rest

CrawlLoggedIn(j) ==
    /\ pc[j] = "c_duo"
    /\ Step(j, "c_disc", "logged_in", <<>>)
    /\ Rest

CrawlDiscover(j) ==
    /\ pc[j] = "c_disc"
    /\ Step(j, "c_courses", "discovering_courses", <<>>)
    /\ Rest

\* every course crawled: cb("status", "completed"), return input_path
CrawlCourses(j) ==
    /\ pc[j] = "c_courses"
    /\ Step(j, "crawled_ok", "completed", <<"[log] Found courses", "[log] course done">>)
    /\ Rest

\* an exception inside the crawler's try: cb("log", error), cb("status", "failed"),
\* return no input_path
CrawlException(j) ==
    /\ pc[j] \in {"c_check", "c_login", "c_code", "c_duo", "c_courses"}
    /\ Step(j, "crawled_none", "failed", <<"[log] error">>)
    /\ Rest

(***************************************************************************)
(* run_scrape_and_index after the crawler returned.                        *)
(***************************************************************************)
\* input_path empty: skipped for a reuse-only job, failed otherwise; return
ScrapeNoInput(j) ==
    /\ pc[j] = "crawled_none"
    /\ Step(j, "finally", NoInputStatus(kind[j]),
            <<"Scrape finished", "Session persisted for future reuse",
              IF kind[j] = "auto" THEN "Autoscrape skipped: session expired / login required"
                                  ELSE "input.txt missing; aborting">>)
    /\ Rest

\* the crawler returned an input file that holds only whitespace
ScrapeEmptyInput(j) ==
    /\ pc[j] = "crawled_ok"
    /\ Step(j, "finally", "failed",
            <<"Scrape finished", "Session persisted for future reuse",
              "input.txt empty; aborting">>)
    /\ Rest

ScrapeCompressing(j) ==
    /\ pc[j] = "crawled_ok"
    /\ Step(j, "compress", "compressing",
            <<"Scrape finished", "Session persisted for future reuse",
              "Starting streaming compression">>)
    /\ Rest

(***************************************************************************)
(* run_test_and_index (kind "test") up to the compression.                 *)
(***************************************************************************)
TestStart(j) ==
    /\ pc[j] = "run"
    /\ kind[j] = "test"
    /\ Step(j, "t_compress", "starting", <<"Test scrape started">>)
    /\ Rest

TestCompressing(j) ==
    /\ pc[j] = "t_compress"
    /\ Step(j, "compress", "compressing", <<"Starting streaming compression on synthetic corpus">>)
    /\ Rest


(***************************************************************************)
(* The compression call as the job state machine sees it: it returns the   *)
(* stream path or raises. With db given (run_scrape_and_index) it writes   *)
(* status "compressing" on the way; run_test_and_index passes no db.       *)
(* SpecCompress below models the call block by block.                      *)
(***************************************************************************)
CompressStatus(k) == IF k = "test" THEN "" ELSE "compressing"

StreamCompressReturns(j) ==
    /\ pc[j] = "compress"
    /\ Step(j, "compressed", CompressStatus(kind[j]),
            IF kind[j] = "test" THEN <<>> ELSE <<"Streaming compression complete (course-aware)">>)
    /\ Rest

\* an exception of openai_chat (or of a file operation) leaves the call
StreamCompressRaises(j) ==
    /\ pc[j] = "compress"
    /\ exc' = [exc EXCEPT ![j] = TRUE]
    /\ Step(j, "exc", CompressStatus(kind[j]), <<>>)
    /\ UNCHANGED <<kind, owner, JOB_LOCK, njobs, sched, documents, environ>>

\* _update_job(status="completed", ...) right after the call returned
Completed(j) ==
    /\ pc[j] = "compressed"
    /\ Step(j, "post", "completed", <<"Streaming compression complete">>)
    /\ Rest

\* persist_compressed_and_index committed the Document; every step after
\* "completed" sits in its own try/except and only logs
PostPersisted(j) ==
    /\ pc[j] = "post"
    /\ documents' = documents \cup {j}
    /\ Step(j, "finally", "", <<"Created document and chunks for semantic retrieval">>)
    /\ UNCHANGED <<kind, owner, exc, JOB_LOCK, njobs, sched, environ>>

\* persist_compressed_and_index raised before the Document was committed
PostPersistFails(j) ==
    /\ pc[j] = "post"
    /\ Step(j, "finally", "",
            IF kind[j] = "test" THEN <<>> ELSE <<"WARNING: Failed to create chunks for retrieval">>)
    /\ Rest

\* the positions of the try body whose next statement is a call of _update_job
UpdatePcs == {"run", "r_login", "crawled_none", "crawled_ok", "t_compress", "compressed"}

\* _update_job raises in the try body (the query or the commit fails): nothing is written
UpdateJobRaises(j) ==
    /\ pc[j] \in UpdatePcs
    /\ kind[j] # "session"
    /\ exc' = [exc EXCEPT ![j] = TRUE]
    /\ Step(j, "exc", "", <<>>)
    /\ UNCHANGED <<kind, owner, JOB_LOCK, njobs, sched, documents, environ>>

\* except Exception as e: _update_job(status="failed", log_line=f"Exception: {e}")
Handler(j) ==
    /\ pc[j] = "exc"
    /\ Step(j, "finally", HandlerStatus, <<"Exception: e">>)
    /\ Rest

\* the handler's own _update_job raises: nothing is written, the exception leaves
\* the function through its finally clause and reaches the worker's finally
HandlerRaises(j) ==
    /\ pc[j] = "exc"
    /\ Step(j, "finally", "", <<>>)
    /\ Rest

(***************************************************************************)
(* run_session_scrape_and_index (kind "session"). cookies_json is the      *)
(* output of json.dumps, so json.loads does not fail.                      *)
(***************************************************************************)
SessionStart(j) ==
    /\ pc[j] = "run"
    /\ kind[j] = "session"
    /\ Step(j, "s_cookies", "starting", <<"Starting session-based Canvas scrape">>)
    /\ Rest

SessionCookies(j) ==
    /\ pc[j] = "s_cookies"
    /\ Step(j, "s_scrape", "session_scraping", <<"Using session cookies from browser extension">>)
    /\ Rest

SessionScrape(j) ==
    /\ pc[j] = "s_scrape"
    /\ Step(j, "s_crawl", "scraping", <<"Starting Canvas scrape with session cookies">>)
    /\ Rest

\* the cookie crawler raised, or returned no input_path, or the input was empty
SessionCrawlFails(j) ==
    /\ pc[j] = "s_crawl"
    /\ \E line \in {"Session-based scraping failed", "No scraping output found"} :
           Step(j, "finally", "failed", <<line>>)
    /\ Rest

SessionCompressing(j) ==
    /\ pc[j] = "s_crawl"
    /\ Step(j, "s_compress", "compressing", <<"Starting compression">>)
    /\ Rest

\* compress_raw_text and persist_compressed_and_index returned
SessionCompleted(j) ==
    /\ pc[j] = "s_compress"
    /\ documents' = documents \cup {j}
    /\ Step(j, "finally", "completed", <<"Session-based scrape completed successfully">>)
    /\ UNCHANGED <<kind, owner, exc, JOB_LOCK, njobs, sched, environ>>

\* they raised: the function's own handler
SessionHandler(j) ==
    /\ pc[j] = "s_compress"
    /\ Step(j, "finally", "failed", <<"Session scrape failed: e">>)
    /\ Rest

(***************************************************************************)
(* Process restart and the boot-time recovery pass.                        *)
(***************************************************************************)
\* the process is killed and started again: daemon threads and the lock are gone,
\* the job rows, log files and documents stay
Crash ==
    /\ pc' = [j \in Jobs |-> IF pc[j] \in {"none", "done"} THEN pc[j] ELSE "dead"]
    /\ JOB_LOCK' = FALSE
    /\ sched' = "boot"
    \* the new process starts from the deployment's environment
    /\ environ' = NoEnviron
    /\ UNCHANGED <<status, kind, owner, log, exc, njobs, documents>>
    /\ UNCHANGED nonLifeVars

\* _scheduler_loop calls _resume_interrupted_jobs once, before its loop
_resume_interrupted_jobs ==
    /\ sched = "boot"
    /\ sched' = "loop"
    /\ status' = [j \in Jobs |-> IF j \in Created THEN ResumeStatus(status[j]) ELSE status[j]]
    /\ UNCHANGED <<pc, kind, owner, log, exc, JOB_LOCK, njobs, documents, environ>>
    /\ UNCHANGED nonLifeVars

WorkerStep(j) ==
    \/ WaitFastPath(j) \/ WaitAcquired(j) \/ WaitContended(j)
    \/ PollAcquire(j) \/ PollTimeout(j) \/ Release(j)
    \/ ScrapeConfigure(j) \/ ScrapeLoggingIn(j)
    \/ CrawlBuildDriverFails(j) \/ CrawlCheckSession(j) \/ CrawlSessionWarm(j)
    \/ CrawlNoSession(j) \/ CrawlLoginStart(j) \/ CrawlDuoCode(j) \/ CrawlWaitingDuo(j)
    \/ CrawlLoggedIn(j) \/ CrawlDiscover(j) \/ CrawlCourses(j) \/ CrawlException(j)
    \/ ScrapeNoInput(j) \/ ScrapeEmptyInput(j) \/ ScrapeCompressing(j)
    \/ TestStart(j) \/ TestCompressing(j)
    \/ StreamCompressReturns(j) \/ StreamCompressRaises(j)
    \/ Completed(j) \/ PostPersisted(j) \/ PostPersistFails(j)
    \/ UpdateJobRaises(j) \/ Handler(j) \/ HandlerRaises(j)
    \/ SessionStart(j) \/ SessionCookies(j) \/ SessionScrape(j) \/ SessionCrawlFails(j)
    \/ SessionCompressing(j) \/ SessionCompleted(j) \/ SessionHandler(j)

Enqueue == start_job \/ start_test \/ api_session_login \/ SchedulerEnqueue

NextRun == Enqueue \/ (\E j \in Jobs : WorkerStep(j))

Next == NextRun \/ Crash \/ _resume_interrupted_jobs

Spec == Init /\ [][Next]_vars


(***************************************************************************)
(* One process run under fair scheduling: every worker thread keeps        *)
(* running, every call a slot holder makes returns, and the lock is        *)
(* granted fairly to the workers polling for it.                           *)
(***************************************************************************)
NextFair == NextRun \/ _resume_interrupted_jobs

Fairness ==
    \A j \in Jobs :
        /\ WF_vars(WorkerStep(j) /\ pc[j] # "poll")
        /\ SF_vars(PollAcquire(j))

FairSpec == Init /\ [][NextFair]_vars /\ Fairness

(***************************************************************************)
(* Process restarts under the same fair scheduling: the worker threads of  *)
(* the running process keep running and each boot runs its recovery pass;  *)
(* once a restart has interrupted a job, the process stays up.             *)
(***************************************************************************)
\* a restart that finds no job left over from an earlier restart
FirstCrash == (\A j \in Jobs : pc[j] # "dead") /\ Crash

NextRecovery == NextRun \/ FirstCrash \/ _resume_interrupted_jobs

RecoverySpec ==
    Init /\ [][NextRecovery]_vars /\ Fairness /\ WF_vars(_resume_interrupted_jobs)

(***************************************************************************)
(* Claims about the slot and the job state machine.                        *)
(***************************************************************************)

\* C1: at every instant at most one worker is between its return from
\* _wait_for_job_slot and its call of _release_job_slot, whatever the kinds of
\* the enqueued jobs.
C1_SlotExclusive ==
    \A i, j \in Jobs : (InCriticalSection(i) /\ InCriticalSection(j)) => i = j

\* one job is inside the critical section while another one polls for the slot
C1_Witness ==
    \E i, j \in Jobs :
        /\ InCriticalSection(i)
        /\ pc[j] = "poll"
        /\ status[j] = QueuedWaiting

C3_CaughtAndFailed ==
    \A j \in Jobs :
        (exc[j] /\ pc[j] \in {"finally", "done"}) =>
            (status[j] = "failed" /\ log[j] = "Exception: e")

\* C7 (as claimed): a status completed, failed or skipped never changes again.
C7_TerminalIsFinal ==
    [][\A j \in Jobs : status[j] \in Terminal => status'[j] = status[j]]_vars

\* C8 (as claimed): every status is one of the eight documented values and every
\* job is created queued.
C8_DocumentedOnly ==
    \A j \in Created :
        /\ status[j] \in DocumentedStatuses
        /\ pc[j] = "wait" => status[j] = "queued"

\* C8 (amended): every status is a documented value, the waiting value, a value
\* reported by the crawler's callback or a session-job value; a session job is
\* created session_starting, every other job queued.
C8_WrittenStatuses ==
    \A j \in Created :
        /\ status[j] \in DocumentedStatuses \cup {QueuedWaiting}
                            \cup CrawlerStatuses \cup SessionStatuses
        /\ pc[j] = "wait" =>
              status[j] = (IF kind[j] = "session" THEN "session_starting" ELSE "queued")

\* a Duo code is mirrored into one job's status while another job waits for the slot
C8_Witness ==
    \E i, j \in Created : status[i] = DuoStatus /\ status[j] = QueuedWaiting

\* C9 (as claimed): a reuse-only job whose crawler returned no input_path never
\* shows failed and ends skipped.
C9_ReuseOnlyNeverFailed ==
    \A j \in Jobs :
        kind[j] = "auto" =>
            /\ pc[j] = "crawled_none" => status[j] # "failed"
            /\ (pc[j] \in {"finally", "done"} /\ ~exc[j] /\ j \notin documents
                  /\ status[j] # "completed") => status[j] = "skipped"

\* C10 (as claimed): the recovery pass of a freshly booted process (no worker
\* thread alive) leaves every terminal job alone and re-marks every other job queued.
C10_RecoveryRequeuesAll ==
    [][(sched = "boot" /\ sched' = "loop" /\ \A j \in Jobs : pc[j] \in {"none", "done", "dead"}) =>
          \A j \in Created :
              IF status[j] \in Terminal THEN status'[j] = status[j]
                                        ELSE status'[j] = "queued"]_vars


(***************************************************************************)
(* stream_compress_corpus_blocks, block by block, with the fallback codec  *)
(* of encode_text / estimate_tokens (4 characters per token), and the      *)
(* caller's status writes around it.                                       *)
(***************************************************************************)
MaxSmall == 28

CHARS_PER_TOKEN == 4
TARGET_CORPUS_TOKENS == 126000
MODEL_MAX_OUT == 16384
MIN_OUT == 512

\* a long course (or none), followed by up to MaxSmall short or empty ones
BigChars == {0, 100000, 640000}
SmallChars == {0, 10}

Corpora ==
    {(IF big = 0 THEN <<>> ELSE <<big>>) \o [i \in 1..n |-> small] :
        big \in BigChars, n \in 0..MaxSmall, small \in SmallChars}

Max(a, b) == IF a >= b THEN a ELSE b
Min(a, b) == IF a <= b THEN a ELSE b
CeilDiv(a, b) == (a + b - 1) \div b

\* encode_text without tiktoken: slices of 4 characters
NumTokens(chars) == CeilDiv(chars, CHARS_PER_TOKEN)

\* estimate_tokens without tiktoken: max(1, len(text) // 4)
estimate_tokens(chars) == Max(1, chars \div CHARS_PER_TOKEN)

\* total_tokens += len(stoks) over all segments
RECURSIVE TotalTokens(_)
TotalTokens(ss) == IF ss = <<>> THEN 0 ELSE NumTokens(Head(ss)) + TotalTokens(Tail(ss))

NumBlocksMutant(chars, bt) == NumTokens(chars) \div bt

\* num_blocks = math.ceil(len(toks) / block_tokens)
NumBlocks(chars, bt) == CeilDiv(NumTokens(chars), bt)

\* len(decode_tokens(toks[i*bt : min(len(toks), (i+1)*bt)])): the block's characters
BlockChars(chars, bt, i) ==
    Min(chars, (i + 1) * bt * CHARS_PER_TOKEN) - i * bt * CHARS_PER_TOKEN

\* floor(a * b / c) without leaving 32 bits (b is split at 1000)
MulDivFloor(a, b, c) ==
    LET x == a * (b \div 1000)
        y == a * (b % 1000)
    IN  1000 * (x \div c) + ((1000 * (x % c) + y) \div c)

\* int(in_tokens_est * min(1.0, 126000 / float(total_tokens)))
TargetOut(in_est, total) ==
    IF total <= TARGET_CORPUS_TOKENS THEN in_est
    ELSE MulDivFloor(in_est, TARGET_CORPUS_TOKENS, total)

MaxOutTokensMutant(in_est, total) == Max(MIN_OUT, TargetOut(in_est, total))

\* max_out_tokens = min(MODEL_MAX_OUT, max(512, target_out))
MaxOutTokens(in_est, total) == Min(MODEL_MAX_OUT, Max(MIN_OUT, TargetOut(in_est, total)))

\* the budget of block b of segment i of the corpus
Budget(i, b) ==
    MaxOutTokens(estimate_tokens(BlockChars(segs[i], block_tokens, b)), TotalTokens(segs))

\* estimated tokens of an accepted response
ResponseTokens(budget) == IF fill = "full" THEN budget ELSE 1

\* out_est of the first response: what the model returns within the budget,
\* or one token more than the budget
FirstResponses(budget) == {ResponseTokens(budget), budget + 1}

NeedsRewriteMutant(out_est, budget) == out_est >= budget

\* if out_est > max_out_tokens
NeedsRewrite(out_est, budget) == out_est > budget

AppendRecordMutant(f, rec) == <<rec>>

AppendRecordPrependMutant(f, rec) == <<rec>> \o f

AppendRecordTwiceMutant(f, rec) == Append(Append(f, rec), rec)

\* with open(stream_path, "a") as f: f.write(...); f.flush(); os.fsync(...)
AppendRecord(f, rec) == Append(f, rec)

RaiseTargetMutant == "next"

\* an exception of openai_chat leaves both loops and the function
RaiseTarget == "exc"

\* the middle blocks of the segments of three blocks or more: a segment's text is
\* stripped, so its first and its last block hold a non-blank character
MiddleBlocks(ss, bt) ==
    {<<i, b>> : i \in 1..Len(ss), b \in 0..8} \cap
    {p \in (1..Len(ss)) \X (0..8) : p[2] >= 1 /\ p[2] + 1 < NumBlocks(ss[p[1]], bt)}

InitCompress ==
    /\ Init0
    /\ IndexIdle
    /\ SplitIdle
    /\ ToolIdle
    /\ segs \in Corpora
    /\ block_tokens \in {20000, 25000}
    /\ blanks \in {{}} \cup {{p} : p \in {q \in MiddleBlocks(segs, block_tokens) : q[2] = 1}}
    /\ fill \in {"full", "one"}
    /\ cpc = "start"
    /\ cstatus = "starting"
    /\ idx = 0
    /\ blk = 0
    /\ stream = <<>>
    /\ calls = 0
    /\ submitted = {}
    /\ raised_at = <<0, 0>>
    /\ max_out = 0
    /\ first_out = 0

CompRest == UNCHANGED <<segs, block_tokens, blanks, fill>> /\ UNCHANGED nonCompVars

\* the caller: _update_job(status="compressing", ...), then the call
CompBegin ==
    /\ cpc = "start"
    /\ cstatus' = "compressing"
    /\ cpc' = "open"
    /\ UNCHANGED <<idx, blk, stream, calls, submitted, raised_at, max_out, first_out>>
    /\ CompRest

NothingToCompressMutant(ss) == ss = <<>>

\* if not segments: return; if total_tokens <= 0: return
NothingToCompress(ss) == ss = <<>> \/ TotalTokens(ss) <= 0

\* truncate the stream file, split, tokenize; return at once when there is nothing
CompOpen ==
    /\ cpc = "open"
    /\ stream' = <<>>
    /\ IF NothingToCompress(segs)
       THEN cpc' = "returned" /\ idx' = idx
       ELSE cpc' = "header" /\ idx' = 1
    /\ UNCHANGED <<cstatus, blk, calls, submitted, raised_at, max_out, first_out>>
    /\ CompRest

\* the course header of segment idx
CompHeader ==
    /\ cpc = "header"
    /\ stream' = AppendRecord(stream, [k |-> "START", seg |-> idx, blk |-> 0, tok |-> 0])
    /\ blk' = 0
    /\ cpc' = "block"
    /\ UNCHANGED <<cstatus, idx, calls, submitted, raised_at, max_out, first_out>>
    /\ CompRest

\* if not part_text.strip(): continue
CompSkipBlank ==
    /\ cpc = "block"
    /\ blk < NumBlocks(segs[idx], block_tokens)
    /\ <<idx, blk>> \in blanks
    /\ blk' = blk + 1
    /\ UNCHANGED <<cpc, cstatus, idx, stream, calls, submitted, raised_at, max_out, first_out>>
    /\ CompRest

\* compressed_chunk = openai_chat(payload): the first request for the block
CompSubmit ==
    /\ cpc = "block"
    /\ blk < NumBlocks(segs[idx], block_tokens)
    /\ <<idx, blk>> \notin blanks
    /\ submitted' = submitted \cup {<<idx, blk>>}
    /\ calls' = 1
    /\ max_out' = Budget(idx, blk)
    /\ first_out' = 0
    /\ cpc' = "chat"
    /\ UNCHANGED <<cstatus, idx, blk, stream, raised_at>>
    /\ CompRest

AppendBlock ==
    /\ stream' = AppendRecord(stream, [k |-> "BLOCK", seg |-> idx, blk |-> blk,
                                       tok |-> ResponseTokens(Budget(idx, blk))])
    /\ blk' = blk + 1
    /\ cpc' = "block"

\* the first response is within max_out_tokens: append it
CompAccept ==
    /\ cpc = "chat"
    /\ \E out \in FirstResponses(max_out) :
          /\ ~NeedsRewrite(out, max_out)
          /\ first_out' = out
    /\ AppendBlock
    /\ UNCHANGED <<cstatus, idx, calls, submitted, raised_at, max_out>>
    /\ CompRest

\* out_est > max_out_tokens: one corrective request
CompRewrite ==
    /\ cpc = "chat"
    /\ \E out \in FirstResponses(max_out) :
          /\ NeedsRewrite(out, max_out)
          /\ first_out' = out
    /\ calls' = 2
    /\ cpc' = "rechat"
    /\ UNCHANGED <<cstatus, idx, blk, stream, submitted, raised_at, max_out>>
    /\ CompRest

\* the corrective response is appended as it comes
CompAcceptRewrite ==
    /\ cpc = "rechat"
    /\ AppendBlock
    /\ UNCHANGED <<cstatus, idx, calls, submitted, raised_at, max_out, first_out>>
    /\ CompRest

\* openai_chat raises (an HTTP 4xx other than 429)
CompRaise ==
    /\ cpc \in {"chat", "rechat"}
    /\ raised_at' = <<idx, blk>>
    /\ IF RaiseTarget = "exc"
       THEN cpc' = "exc" /\ blk' = blk
       ELSE cpc' = "block" /\ blk' = blk + 1
    /\ UNCHANGED <<cstatus, idx, stream, calls, submitted, max_out, first_out>>
    /\ CompRest

\* after the segment's last block: the course end marker, then the next segment
CompEnd ==
    /\ cpc = "block"
    /\ blk >= NumBlocks(segs[idx], block_tokens)
    /\ stream' = AppendRecord(stream, [k |-> "END", seg |-> idx, blk |-> 0, tok |-> 0])
    /\ IF idx < Len(segs)
       THEN cpc' = "header" /\ idx' = idx + 1
       ELSE cpc' = "returned" /\ idx' = idx
    /\ UNCHANGED <<cstatus, blk, calls, submitted, raised_at, max_out, first_out>>
    /\ CompRest

\* the caller: _update_job(status="completed", ...)
CompCompleted ==
    /\ cpc = "returned"
    /\ cstatus' = "completed"
    /\ cpc' = "done"
    /\ UNCHANGED <<idx, blk, stream, calls, submitted, raised_at, max_out, first_out>>
    /\ CompRest

\* the caller: except Exception as e: _update_job(status="failed", ...)
CompHandler ==
    /\ cpc = "exc"
    /\ cstatus' = HandlerStatus
    /\ cpc' = "done"
    /\ UNCHANGED <<idx, blk, stream, calls, submitted, raised_at, max_out, first_out>>
    /\ CompRest

\* the process is killed during the job: what was appended and fsynced stays
CompCrash ==
    /\ cpc \notin {"idle", "done", "dead"}
    /\ cpc' = "dead"
    /\ UNCHANGED <<cstatus, idx, blk, stream, calls, submitted, raised_at, max_out, first_out>>
    /\ CompRest

NextCompress ==
    \/ CompBegin \/ CompOpen \/ CompHeader \/ CompSkipBlank \/ CompSubmit
    \/ CompAccept \/ CompRewrite \/ CompAcceptRewrite \/ CompRaise \/ CompEnd
    \/ CompCompleted \/ CompHandler \/ CompCrash

SpecCompress == InitCompress /\ [][NextCompress]_vars

(***************************************************************************)
(* Claims about the block-wise compression.                                *)
(***************************************************************************)
Raised == raised_at # <<0, 0>>

\* the positions of the stream that hold a compressed block
BlockPositions == {n \in DOMAIN stream : stream[n].k = "BLOCK"}

HasBlock(p) == \E n \in BlockPositions : stream[n].seg = p[1] /\ stream[n].blk = p[2]

\* (segment, block) of record a comes before that of record b
Before(a, b) == a.seg < b.seg \/ (a.seg = b.seg /\ a.blk < b.blk)

\* is a block left after block p of the corpus (a non-blank one, in p's segment or later)
BlockLeftAfter(p) ==
    \E i \in p[1]..Len(segs) : \E b \in 0..8 :
        /\ b < NumBlocks(segs[i], block_tokens)
        /\ <<i, b>> \notin blanks
        /\ i > p[1] \/ b > p[2]

C5_AppendedInOrder ==
    /\ \A m, n \in BlockPositions : m < n => Before(stream[m], stream[n])
    /\ \A n \in BlockPositions : <<stream[n].seg, stream[n].blk>> \in submitted
    /\ \A p \in submitted :
          \/ HasBlock(p)
          \/ p = <<idx, blk>>
          \/ p = raised_at

\* two blocks of one segment and a block of the next segment are in the stream,
\* and the call for a further block is in flight
C5_Witness ==
    /\ cpc \in {"chat", "rechat"}
    /\ \E l, m, n \in BlockPositions :
          /\ stream[l].seg = stream[m].seg
          /\ stream[l].blk < stream[m].blk
          /\ stream[m].seg < stream[n].seg

RECURSIVE SumTokens(_)
SumTokens(f) == IF f = <<>> THEN 0 ELSE Head(f).tok + SumTokens(Tail(f))

\* C6 (as claimed): the estimated tokens of all compressed blocks appended for one
\* job sum to at most C * (1 + eps), C = 126000, here with eps = 1/10, every
\* accepted response being within the max_output_tokens of its call.
C6_TotalWithinCap ==
    SumTokens(stream) <= TARGET_CORPUS_TOKENS + TARGET_CORPUS_TOKENS \div 10

(***************************************************************************)
(* Claims about recovery, the scheduler and the persisted document.        *)
(***************************************************************************)

\* a job whose worker thread died with the process and whose row the recovery
\* pass of the new process has (re-)marked queued
Requeued(j) == pc[j] = "dead" /\ sched = "loop" /\ status[j] = "queued"

\* C11 (as claimed): a job re-marked queued by the boot-time recovery pass is run
\* again and eventually reaches a terminal status.
C11_RequeuedJobRuns ==
    \A j \in Jobs : Requeued(j) ~> (status[j] \in Terminal)

\* C12 (as claimed): the scheduler enqueues no job for a user who has a job that
\* has not reached a terminal status.
C12_NoSecondActiveJob ==
    [][\A u \in Users :
          (njobs' = njobs + 1 /\ kind'[njobs'] = "auto" /\ owner'[njobs'] = u) =>
              \A j \in Created : owner[j] = u => status[j] \in Terminal]_vars

\* C14 (as claimed): a job whose status is completed has a persisted Document.
C14_CompletedHasDocument ==
    \A j \in Created : status[j] = "completed" => j \in documents

(***************************************************************************)
(* Claims about the compressed stream file.                                *)
(***************************************************************************)
IsPrefix(f, g) == Len(f) <= Len(g) /\ SubSeq(g, 1, Len(f)) = f

\* C13: the stream file is emptied by the open at the start of
\* stream_compress_corpus_blocks and by no other step; every other step, a kill of
\* the process included, leaves the earlier content as a prefix of the later one.
C13_AppendOnly ==
    [][IF cpc = "open" /\ cpc' # "dead" THEN stream' = <<>> ELSE IsPrefix(stream, stream')]_vars

\* the process was killed after two blocks or more had been appended
C13_Witness == cpc = "dead" /\ Cardinality(BlockPositions) >= 2

(***************************************************************************)
(* Indexing: persist_compressed_and_index (one Document, its own commits)  *)
(* and api_upload_courses (one Document per course, one commit at the end  *)
(* of the request), both through openai_embed.                             *)
(***************************************************************************)
MaxDocs == 2
MaxChunks == 2

Docs == 1..MaxDocs

openai_embedMutant(n, m) == "ok"

\* openai_embed: if len(vectors) != len(texts): raise RuntimeError(...)
openai_embed(n, m) == IF m # n THEN "raise" ELSE "ok"

\* for i, (chunk_text, embedding) in enumerate(zip(text_chunks, embeddings)): db.add(chunk)
Zipped(n, m) == Min(n, m)

ZeroPerDoc == [d \in Docs |-> 0]

InitIndex ==
    /\ Init0
    /\ CompIdle
    /\ SplitIdle
    /\ ToolIdle
    /\ ientry \in {"persist", "upload"}
    /\ ipc = "start"
    /\ icourse = 1
    /\ nchunks \in [Docs -> 0..MaxChunks]
    /\ nvecs \in [Docs -> 0..(MaxChunks + 1)]
    /\ ientry = "persist" => \A d \in Docs : d > 1 => (nchunks[d] = 0 /\ nvecs[d] = 0)
    /\ embedded = {}
    /\ pending = ZeroPerDoc
    /\ doc_pending = {}
    /\ chunks_db = ZeroPerDoc
    /\ doc_db = {}
    /\ iresult = ""

IndexRest == UNCHANGED <<ientry, nchunks, nvecs>> /\ UNCHANGED nonIndexVars

\* session.commit(): the pending rows become committed rows
Committed(rows, added) == [d \in Docs |-> rows[d] + added[d]]

\* api_upload_courses: the position after course icourse
AfterCourse == IF icourse < MaxDocs THEN "start" ELSE "commit"

\* persist_compressed_and_index: db.add(doc); db.commit()
IdxPersistDocument ==
    /\ ientry = "persist"
    /\ ipc = "start"
    /\ doc_db' = doc_db \cup {icourse}
    /\ ipc' = IF nchunks[icourse] > 0 THEN "embed" ELSE "final"
    /\ UNCHANGED <<icourse, embedded, pending, doc_pending, chunks_db, iresult>>
    /\ IndexRest

\* api_upload_courses: db.add(document) for the course of the loop
IdxUploadDocument ==
    /\ ientry = "upload"
    /\ ipc = "start"
    /\ doc_pending' = doc_pending \cup {icourse}
    /\ IF nchunks[icourse] > 0
       THEN ipc' = "embed" /\ icourse' = icourse
       ELSE ipc' = AfterCourse /\ icourse' = (IF icourse < MaxDocs THEN icourse + 1 ELSE icourse)
    /\ UNCHANGED <<embedded, pending, chunks_db, doc_db, iresult>>
    /\ IndexRest

\* openai_embed returned as many vectors as texts: the zip loop adds the Chunk rows
IdxEmbedReturns ==
    /\ ipc = "embed"
    /\ openai_embed(nchunks[icourse], nvecs[icourse]) = "ok"
    /\ embedded' = embedded \cup {icourse}
    /\ pending' = [pending EXCEPT ![icourse] = Zipped(nchunks[icourse], nvecs[icourse])]
    /\ IF ientry = "persist"
       THEN ipc' = "commit_chunks" /\ icourse' = icourse
       ELSE ipc' = AfterCourse /\ icourse' = (IF icourse < MaxDocs THEN icourse + 1 ELSE icourse)
    /\ UNCHANGED <<doc_pending, chunks_db, doc_db, iresult>>
    /\ IndexRest

\* openai_embed raised RuntimeError("Embedding count mismatch ...")
IdxEmbedMismatch ==
    /\ ipc = "embed"
    /\ openai_embed(nchunks[icourse], nvecs[icourse]) = "raise"
    /\ embedded' = embedded \cup {icourse}
    /\ ipc' = IF ientry = "persist" THEN "handler" ELSE "close"
    /\ UNCHANGED <<icourse, pending, doc_pending, chunks_db, doc_db, iresult>>
    /\ IndexRest

\* resp.raise_for_status() raised: no response was read
IdxEmbedHttpError ==
    /\ ipc = "embed"
    /\ ipc' = IF ientry = "persist" THEN "handler" ELSE "close"
    /\ UNCHANGED <<icourse, embedded, pending, doc_pending, chunks_db, doc_db, iresult>>
    /\ IndexRest

\* persist_compressed_and_index: db.commit() after the zip loop
IdxPersistCommit ==
    /\ ipc = "commit_chunks"
    /\ chunks_db' = Committed(chunks_db, pending)
    /\ pending' = ZeroPerDoc
    /\ ipc' = "final"
    /\ UNCHANGED <<icourse, embedded, doc_pending, doc_db, iresult>>
    /\ IndexRest

\* persist_compressed_and_index: except Exception as e: log_exception(...);
\* _update_job(log_line="WARNING: ...") (which commits the session)
IdxPersistHandler ==
    /\ ipc = "handler"
    /\ chunks_db' = Committed(chunks_db, pending)
    /\ pending' = ZeroPerDoc
    /\ ipc' = "final"
    /\ UNCHANGED <<icourse, embedded, doc_pending, doc_db, iresult>>
    /\ IndexRest

\* persist_compressed_and_index: return doc_id
IdxPersistReturn ==
    /\ ipc = "final"
    /\ iresult' = "returned"
    /\ ipc' = "done"
    /\ UNCHANGED <<icourse, embedded, pending, doc_pending, chunks_db, doc_db>>
    /\ IndexRest

\* api_upload_courses: db.commit() after the loop, then the 200 response
IdxUploadCommit ==
    /\ ipc = "commit"
    /\ chunks_db' = Committed(chunks_db, pending)
    /\ pending' = ZeroPerDoc
    /\ doc_db' = doc_db \cup doc_pending
    /\ doc_pending' = {}
    /\ iresult' = "200"
    /\ ipc' = "done"
    /\ UNCHANGED <<icourse, embedded>>
    /\ IndexRest

\* api_upload_courses: the exception leaves the loop; finally: db.close() drops the
\* uncommitted rows; except Exception as e: return ..., 500
IdxUploadClose ==
    /\ ipc = "close"
    /\ pending' = ZeroPerDoc
    /\ doc_pending' = {}
    /\ iresult' = "500"
    /\ ipc' = "done"
    /\ UNCHANGED <<icourse, embedded, chunks_db, doc_db>>
    /\ IndexRest

NextIndex ==
    \/ IdxPersistDocument \/ IdxUploadDocument
    \/ IdxEmbedReturns \/ IdxEmbedMismatch \/ IdxEmbedHttpError
    \/ IdxPersistCommit \/ IdxPersistHandler \/ IdxPersistReturn
    \/ IdxUploadCommit \/ IdxUploadClose

SpecIndex == InitIndex /\ [][NextIndex]_vars

(***************************************************************************)
(* Claims about indexing.                                                  *)
(***************************************************************************)
\* the embeddings response for document d held another number of vectors than texts
CountMismatch(d) == d \in embedded /\ nvecs[d] # nchunks[d]

\* C15 (as claimed): after a count mismatch persist_compressed_and_index does not
\* return normally to its caller.
C15_MismatchReachesCaller ==
    (ientry = "persist" /\ \E d \in Docs : CountMismatch(d)) => iresult # "returned"

\* C16: no Chunk row is committed for a document whose embeddings response had a
\* count mismatch, in persist_compressed_and_index and in api_upload_courses.
C16_NoChunksOnMismatch ==
    \A d \in Docs : CountMismatch(d) => chunks_db[d] = 0

\* an upload whose first course got its Chunk rows added and whose second course
\* had a count mismatch has ended
C16_Witness ==
    /\ ientry = "upload"
    /\ ipc = "done"
    /\ nchunks[1] > 0
    /\ 1 \in embedded
    /\ \E d \in Docs : d > 1 /\ CountMismatch(d) /\ nvecs[d] > 0

(***************************************************************************)
(* _split_stream_by_course, one line of raw.splitlines() per step. A line  *)
(* is what the three regular expressions find in it: cid is group 1 of the *)
(* first match of course_url_re, label the stripped group 1 of             *)
(* snippet_name_re, done group 1 of course_done_re ("" when no match);     *)
(* blank says that the line holds only whitespace.                         *)
(***************************************************************************)
MaxLines == 4

CourseIds == {"1", "2"}

Line(c, l, d, b) == [cid |-> c, label |-> l, done |-> d, blank |-> b]

\* the bracketed label of a course's pages
LabelOf(c) == IF c = "1" THEN "Algebra" ELSE "Biology"

LineKinds ==
    {Line("", "", "", TRUE), Line("", "", "", FALSE)}
        \cup {Line(c, "", "", FALSE) : c \in CourseIds}
        \cup {Line(c, LabelOf(c), "", FALSE) : c \in CourseIds}
        \cup {Line("", "", d, FALSE) : d \in CourseIds}
        \cup {Line(c, "", d, FALSE) : c \in CourseIds, d \in CourseIds}

RawStreams == UNION {[1..n -> LineKinds] : n \in 0..MaxLines}

\* f"course {cur_id}"
CourseFallback(id) == IF id = "1" THEN "course 1" ELSE "course 2"

RECURSIVE StripLeft(_)
StripLeft(b) ==
    IF b # <<>> /\ raw[Head(b)].blank THEN StripLeft(Tail(b)) ELSE b

RECURSIVE StripRight(_)
StripRight(b) ==
    IF b # <<>> /\ raw[b[Len(b)]].blank THEN StripRight(SubSeq(b, 1, Len(b) - 1)) ELSE b

StripMutant(b) == IF b = <<>> THEN b ELSE Tail(b)

\* "\n".join(buf).strip(), as the lines that remain: the whitespace-only lines at
\* both ends are gone
Strip(b) == StripRight(StripLeft(b))

\* the dict appended to parts
Segment(id, name, b) == [course_id |-> id, course_name |-> name, text |-> Strip(b)]

\* cur_name or f"course {cur_id}"
NameOr(name, id) == IF name # "" THEN name ELSE CourseFallback(id)

SwitchesCourseMutant(cid, id) == FALSE

\* mid and cur_id is not None and cid != cur_id
SwitchesCourse(cid, id) == cid # "" /\ id # "" /\ cid # id

DoneMatchesMutant(d, id) == d # ""

\* mdone and cur_id and mdone.group(1) == cur_id
DoneMatches(d, id) == d # "" /\ id # "" /\ d = id

InitSplit ==
    /\ Init0
    /\ CompIdle
    /\ IndexIdle
    /\ ToolIdle
    /\ raw \in RawStreams
    /\ pos = 0
    /\ spc = "loop"
    /\ cur_id = ""
    /\ cur_name = ""
    /\ buf = <<>>
    /\ parts = <<>>
    /\ closed = <<>>

\* the body of the for loop, for line pos + 1
SplitLine ==
    /\ spc = "loop"
    /\ pos < Len(raw)
    /\ LET n == pos + 1
           line == raw[n]
           name1 == IF line.label # "" THEN line.label ELSE cur_name
           flush1 == SwitchesCourse(line.cid, cur_id) /\ buf # <<>>
           parts1 == IF flush1 THEN Append(parts, Segment(cur_id, NameOr(name1, cur_id), buf))
                               ELSE parts
           closed1 == IF flush1 THEN Append(closed, [by |-> "switch", at |-> n]) ELSE closed
           buf1 == IF flush1 THEN <<>> ELSE buf
           id1 == IF line.cid # "" THEN line.cid ELSE cur_id
           buf2 == Append(buf1, n)
       IN  /\ pos' = n
           /\ IF DoneMatches(line.done, id1)
              THEN /\ parts' = Append(parts1, Segment(id1, NameOr(name1, id1), buf2))
                   /\ closed' = Append(closed1, [by |-> "done", at |-> n])
                   /\ buf' = <<>>
                   /\ cur_id' = ""
                   /\ cur_name' = ""
              ELSE /\ parts' = parts1
                   /\ closed' = closed1
                   /\ buf' = buf2
                   /\ cur_id' = id1
                   /\ cur_name' = name1
    /\ UNCHANGED <<raw, spc>>
    /\ UNCHANGED nonSplitVars

IdOrGlobalMutant(id) == "GLOBAL"

\* cur_id or "GLOBAL"
IdOrGlobal(id) == IF id # "" THEN id ELSE "GLOBAL"

\* after the loop: flush the trailing buffer, return parts
SplitReturn ==
    /\ spc = "loop"
    /\ pos = Len(raw)
    /\ IF buf # <<>>
       THEN /\ parts' = Append(parts, Segment(IdOrGlobal(cur_id),
                                               IF cur_name # "" THEN cur_name ELSE "GLOBAL",
                                               buf))
            /\ closed' = Append(closed, [by |-> "end", at |-> pos])
       ELSE UNCHANGED <<parts, closed>>
    /\ spc' = "returned"
    /\ UNCHANGED <<raw, pos, cur_id, cur_name, buf>>
    /\ UNCHANGED nonSplitVars

NextSplit == SplitLine \/ SplitReturn

SpecSplit == InitSplit /\ [][NextSplit]_vars

(***************************************************************************)
(* Claims about _split_stream_by_course.                                   *)
(***************************************************************************)
NoSentinel == \A k \in DOMAIN raw : raw[k].done = ""

\* the lines of raw reference course a first and, from line f on, course b only
TwoCourses(a, b, f) ==
    /\ a # b
    /\ f \in DOMAIN raw
    /\ raw[f].cid = b
    /\ \E k \in 1..(f - 1) : raw[k].cid = a
    /\ \A k \in DOMAIN raw :
          IF k < f THEN raw[k].cid \in {"", a} ELSE raw[k].cid \in {"", b}

\* the lines i..j of raw
Lines(i, j) == [k \in 1..(j - i + 1) |-> i + k - 1]

\* C17 (as claimed): for a stream that references course A and then course B, with
\* no sentinel, the result is two segments: exactly the lines before the first
\* line of B, then that line and all following lines.
C17_TwoSegmentsExact ==
    (spc = "returned" /\ NoSentinel) =>
        \A a, b \in CourseIds : \A f \in DOMAIN raw :
            TwoCourses(a, b, f) =>
                /\ Len(parts) = 2
                /\ parts[1].text = Lines(1, f - 1)
                /\ parts[2].text = Lines(f, Len(raw))

\* C17 (amended): the result is two segments, in stream order: the lines before the
\* first line of B and that line with all following lines, each without its
\* leading and trailing whitespace.
C17_TwoSegmentsStripped ==
    (spc = "returned" /\ NoSentinel) =>
        \A a, b \in CourseIds : \A f \in DOMAIN raw :
            TwoCourses(a, b, f) =>
                /\ Len(parts) = 2
                /\ parts[1].text = Strip(Lines(1, f - 1))
                /\ parts[2].text = Strip(Lines(f, Len(raw)))

\* a stream of two courses that begins with a blank line was split in two
C17_Witness ==
    /\ spc = "returned"
    /\ NoSentinel
    /\ Len(parts) = 2
    /\ raw[1].blank
    /\ \E a, b \in CourseIds : \E f \in DOMAIN raw : TwoCourses(a, b, f)

\* C18 (as claimed): the segment flushed at a course switch carries the id and the
\* name of the course that was open before the line of the switch.
C18_FlushedWithPreviousName ==
    [][(spc = "loop" /\ pos < Len(raw) /\ SwitchesCourse(raw[pos + 1].cid, cur_id)
          /\ buf # <<>>) =>
            /\ Len(parts') > Len(parts)
            /\ parts'[Len(parts) + 1].course_id = cur_id
            /\ parts'[Len(parts) + 1].course_name = NameOr(cur_name, cur_id)]_vars

\* the course open when the done-check of line n runs
OpenAtCheck(n) == IF raw[n].cid # "" THEN raw[n].cid ELSE cur_id

\* C19: a sentinel line for the course that is open at the done-check closes the
\* segment with itself as last line and resets id and name; a sentinel for
\* another id, or with no course open, closes no segment and resets nothing.
C19_SentinelClosesOpenCourse ==
    [][(spc = "loop" /\ pos < Len(raw) /\ raw[pos + 1].done # "") =>
          LET n == pos + 1
              last == parts'[Len(parts')]
          IN  IF raw[n].done = OpenAtCheck(n)
              THEN /\ Len(parts') > Len(parts)
                   /\ last.text # <<>>
                   /\ last.text[Len(last.text)] = n
                   /\ last.course_id = raw[n].done
                   /\ cur_id' = ""
                   /\ cur_name' = ""
                   /\ buf' = <<>>
              ELSE /\ \A i \in DOMAIN parts' : i > Len(parts) => n \notin
                          {parts'[i].text[k] : k \in DOMAIN parts'[i].text}
                   /\ cur_id' = OpenAtCheck(n)
                   /\ cur_name' = (IF raw[n].label # "" THEN raw[n].label ELSE cur_name)
                   /\ buf' # <<>>
                   /\ buf'[Len(buf')] = n]_vars

\* one sentinel closed a segment and another sentinel, for an id that was not
\* open, closed none
C19_Witness ==
    /\ spc = "returned"
    /\ \E i \in DOMAIN closed : closed[i].by = "done"
    /\ \E k \in DOMAIN raw :
          /\ raw[k].done # ""
          /\ \A i \in DOMAIN closed : closed[i] # [by |-> "done", at |-> k]

\* C20 (as claimed): no emitted segment has empty text.
C20_NoEmptySegment ==
    \A i \in DOMAIN parts : parts[i].text # <<>>

(***************************************************************************)
(* truncate_to_tokens (src/app.py 538-567) with the estimator the source    *)
(* defines itself, the four-characters-per-token estimate of                *)
(* estimate_tokens (src/app.py 493-494).  Under that estimator a text       *)
(* counts by its length only, so a text is its length and the prefix        *)
(* text[:k] is k.                                                           *)
(***************************************************************************)
MaxText == 30
MaxBudget == 6

\* the while loop of truncate_to_tokens: lo, hi, best and the budget
RECURSIVE BinarySearch(_, _, _, _)
BinarySearch(lo, hi, best, n) ==
    IF lo > hi
    THEN best
    ELSE LET mid == (lo + hi) \div 2
             t == estimate_tokens(mid)
         IN  IF t <= n
             THEN BinarySearch(mid + 1, hi, mid, n)
             ELSE BinarySearch(lo, mid - 1, best, n)

truncate_to_tokensMutant(chars, n) == chars \div 2

truncate_to_tokens(chars, n) ==
    IF estimate_tokens(chars) <= n
    THEN chars
    ELSE BinarySearch(0, chars, 0, n)

InitTrunc ==
    /\ Init0
    /\ CompIdle
    /\ IndexIdle
    /\ SplitIdle
    /\ ChatIdle
    /\ RelIdle
    /\ FileIdle
    /\ text_len \in 0..MaxText
    /\ max_tokens \in 0..MaxBudget
    /\ tpc = "call"
    /\ out1 = -1
    /\ out2 = -1

\* truncate_to_tokens(text, max_tokens, model)
TruncateOnce ==
    /\ tpc = "call"
    /\ out1' = truncate_to_tokens(text_len, max_tokens)
    /\ tpc' = "once"
    /\ UNCHANGED <<text_len, max_tokens, out2>>
    /\ UNCHANGED nonTruncVars

\* truncate_to_tokens applied to what it returned, with the same budget
TruncateAgain ==
    /\ tpc = "once"
    /\ out2' = truncate_to_tokens(out1, max_tokens)
    /\ tpc' = "twice"
    /\ UNCHANGED <<text_len, max_tokens, out1>>
    /\ UNCHANGED nonTruncVars

NextTrunc == TruncateOnce \/ TruncateAgain

SpecTrunc == InitTrunc /\ [][NextTrunc]_vars

\* C21: for every text and every budget N >= 0 the result is a prefix whose
\* estimate is at most N, no longer prefix has an estimate of at most N, and
\* a budget of 0 gives the empty string.
C21_LongestPrefixWithinBudget ==
    tpc # "call" =>
        /\ out1 \in 0..text_len
        /\ estimate_tokens(out1) <= max_tokens
        /\ \A k \in (out1 + 1)..text_len : estimate_tokens(k) > max_tokens
        /\ (max_tokens = 0 => out1 = 0)

\* C22: applying truncate_to_tokens to its own result with the same budget
\* returns that result unchanged.
C22_Idempotent == tpc = "twice" => out2 = out1

\* a text that was cut, and the cut applied again to the result
C22_Witness == tpc = "twice" /\ out1 < text_len /\ out1 > 0

(***************************************************************************)
(* openai_chat (src/app.py 644-686): one invocation, attempt by attempt,    *)
(* made by the worker of a job from run_scrape_and_index, either as the     *)
(* summarization call of stream_compress_corpus_blocks or as the call of    *)
(* extract_classes_list, and what the caller does with its outcome.         *)
(***************************************************************************)
MAX_ATTEMPTS == 5

\* what one attempt can meet: an HTTP status, or 0 for a network error
\* (a requests RequestException that is not an HTTPError)
StatusCodes == {200, 400, 401, 404, 429, 500, 501, 502, 503, 504, 529}
NetworkError == 0

\* resp.raise_for_status() raises HTTPError for 4xx and 5xx
RaisesHTTPError(code) == code \in 400..599

\* the codes the HTTPError branch sleeps and continues on
Retryable(code) == code \in {429, 500, 502, 503, 504}

SENTINEL == "[Error: retries exhausted]"

Sites == {"summarize", "classes"}

InitChat ==
    /\ Init0
    /\ CompIdle
    /\ IndexIdle
    /\ SplitIdle
    /\ TruncIdle
    /\ RelIdle
    /\ FileIdle
    /\ attempt = 1
    /\ responses = <<>>
    /\ sleeps = 0
    /\ chpc = "post"
    /\ chres = ""
    /\ site \in Sites
    /\ caller_status = IF site = "summarize" THEN "compressing" ELSE "completed"
    /\ caller_log = ""
    /\ appended = ""

\* end of one iteration that did not leave the function: the next attempt,
\* or the return after the loop
NextAttempt ==
    IF attempt < MAX_ATTEMPTS
    THEN /\ attempt' = attempt + 1
         /\ chpc' = "post"
         /\ chres' = chres
    ELSE /\ attempt' = attempt
         /\ chpc' = "returned"
         /\ chres' = SENTINEL

ChatRest == UNCHANGED <<site, caller_status, caller_log, appended>> /\ UNCHANGED nonChatVars

\* the attempt succeeds: the text is returned
ChatOk ==
    /\ chpc = "post"
    /\ responses' = Append(responses, 200)
    /\ chres' = "text"
    /\ chpc' = "returned"
    /\ UNCHANGED <<attempt, sleeps>>
    /\ ChatRest

\* except HTTPError, code in the retry list: sleep, continue
ChatHttpRetry(code) ==
    /\ chpc = "post"
    /\ RaisesHTTPError(code)
    /\ Retryable(code)
    /\ responses' = Append(responses, code)
    /\ sleeps' = sleeps + 1
    /\ NextAttempt
    /\ ChatRest

\* except HTTPError, any other code: raise
ChatHttpRaise(code) ==
    /\ chpc = "post"
    /\ RaisesHTTPError(code)
    /\ ~Retryable(code)
    /\ responses' = Append(responses, code)
    /\ chpc' = "raised"
    /\ UNCHANGED <<attempt, sleeps, chres>>
    /\ ChatRest

\* except RequestException: sleep, next iteration
ChatNetworkError ==
    /\ chpc = "post"
    /\ responses' = Append(responses, NetworkError)
    /\ sleeps' = sleeps + 1
    /\ NextAttempt
    /\ ChatRest

\* the caller goes on with what was returned: stream_compress_corpus_blocks
\* appends it to the stream as the block's output (here the last block, the
\* function returns and the job is set completed); extract_classes_list
\* parses it
ChatCallerContinues ==
    /\ chpc = "returned"
    /\ chpc' = "handled"
    /\ IF site = "summarize"
       THEN /\ appended' = chres
            /\ caller_status' = "completed"
            /\ caller_log' = "Streaming compression complete"
       ELSE UNCHANGED <<appended, caller_status, caller_log>>
    /\ UNCHANGED <<attempt, responses, sleeps, chres, site>>
    /\ UNCHANGED nonChatVars

\* the exception leaves stream_compress_corpus_blocks and reaches the
\* handler of run_scrape_and_index
ChatCallerHandler ==
    /\ chpc = "raised"
    /\ site = "summarize"
    /\ chpc' = "handled"
    /\ caller_status' = "failed"
    /\ caller_log' = "Exception: e"
    /\ UNCHANGED <<attempt, responses, sleeps, chres, site, appended>>
    /\ UNCHANGED nonChatVars

\* the exception leaves extract_classes_list and is caught around it
ChatCallerWarns ==
    /\ chpc = "raised"
    /\ site = "classes"
    /\ chpc' = "handled"
    /\ caller_log' = "WARNING: Failed to extract classes"
    /\ UNCHANGED <<attempt, responses, sleeps, chres, site, caller_status, appended>>
    /\ UNCHANGED nonChatVars

NextChat ==
    \/ ChatOk
    \/ \E code \in StatusCodes : ChatHttpRetry(code)
    \/ \E code \in StatusCodes : ChatHttpRaise(code)
    \/ ChatNetworkError
    \/ ChatCallerContinues
    \/ ChatCallerHandler
    \/ ChatCallerWarns

SpecChat == InitChat /\ [][NextChat]_vars

\* the response the step just met
Met == responses'[Len(responses')]
AttemptStep == chpc = "post" /\ Len(responses') = Len(responses) + 1
Transient(code) == code = 429 \/ code \in 500..599 \/ code = NetworkError

\* C23: one invocation makes at most 5 attempts; an attempt that meets 429,
\* any 5xx status or a network error is followed by the next attempt, or,
\* when it was the fifth, by the return of the sentinel string; it never
\* raises.
C23_TransientRetried ==
    [][AttemptStep =>
        /\ Len(responses') <= MAX_ATTEMPTS
        /\ (Transient(Met) =>
              \/ attempt < MAX_ATTEMPTS /\ chpc' = "post" /\ attempt' = attempt + 1
              \/ attempt = MAX_ATTEMPTS /\ chpc' = "returned" /\ chres' = SENTINEL)]_vars

\* C24: an attempt that meets a 4xx status other than 429 raises at once,
\* with no further attempt and no backoff sleep, and the job of the calling
\* worker ends failed with the exception message as its log line.
C24_FatalAbortsJob ==
    [][/\ (AttemptStep /\ Met \in 400..499 /\ Met # 429) =>
            (chpc' = "raised" /\ attempt' = attempt /\ sleeps' = sleeps)
       /\ (chpc = "raised" /\ chpc' = "handled"
            /\ responses[Len(responses)] \in (400..499) \ {429}) =>
            (caller_status' = "failed" /\ caller_log' = "Exception: e")]_vars

(***************************************************************************)
(* _release_job_slot (src/app.py 1311-1320) called in any state of          *)
(* JOB_LOCK, by callers that may interleave: the test JOB_LOCK.locked() and  *)
(* the call JOB_LOCK.release() are two steps, and between calls the slot    *)
(* may be acquired.                                                         *)
(***************************************************************************)
MaxCalls == 4

Callers == {"w1", "w2"}

\* JOB_LOCK.release() on an unlocked threading.Lock raises RuntimeError
ReleaseRaises(locked) == ~locked

SuppressMutant(raised) == raised

\* with contextlib.suppress(Exception): what leaves the block
Suppress(raised) == FALSE

InitRel ==
    /\ Init0
    /\ CompIdle
    /\ IndexIdle
    /\ SplitIdle
    /\ TruncIdle
    /\ ChatIdle
    /\ FileIdle
    /\ rlock \in BOOLEAN
    /\ rpc = [t \in Callers |-> "out"]
    /\ rerr = FALSE
    /\ rhist = <<>>

\* JOB_LOCK.acquire succeeds for some worker
RelAcquire ==
    /\ ~rlock
    /\ rlock' = TRUE
    /\ UNCHANGED <<rpc, rerr, rhist>>
    /\ UNCHANGED nonRelVars

\* if JOB_LOCK.locked(): false, the call returns
RelFoundFree(t) ==
    /\ rpc[t] = "out"
    /\ Len(rhist) < MaxCalls
    /\ ~rlock
    /\ rhist' = Append(rhist, [before |-> FALSE, after |-> rlock])
    /\ UNCHANGED <<rlock, rpc, rerr>>
    /\ UNCHANGED nonRelVars

\* if JOB_LOCK.locked(): true
RelFoundLocked(t) ==
    /\ rpc[t] = "out"
    /\ Len(rhist) < MaxCalls
    /\ rlock
    /\ rpc' = [rpc EXCEPT ![t] = "checked"]
    /\ UNCHANGED <<rlock, rerr, rhist>>
    /\ UNCHANGED nonRelVars

\* JOB_LOCK.release(), and the end of the with block
RelRelease(t) ==
    /\ rpc[t] = "checked"
    /\ rlock' = ReleasedLock(rlock)
    /\ rerr' = (rerr \/ Suppress(ReleaseRaises(rlock)))
    /\ rpc' = [rpc EXCEPT ![t] = "out"]
    /\ rhist' = Append(rhist, [before |-> TRUE, after |-> rlock'])
    /\ UNCHANGED nonRelVars

NextRel ==
    \/ RelAcquire
    \/ \E t \in Callers : RelFoundFree(t)
    \/ \E t \in Callers : RelFoundLocked(t)
    \/ \E t \in Callers : RelRelease(t)

SpecRel == InitRel /\ [][NextRel]_vars

\* C25: no call of _release_job_slot lets an exception out; a call made
\* while the slot is free leaves it free; a call that follows another call
\* with the slot as that call left it changes nothing.
C25_ReleaseSafe ==
    /\ ~rerr
    /\ \A i \in 1..Len(rhist) :
          /\ (~rhist[i].before => ~rhist[i].after)
          /\ (i > 1 /\ rhist[i].before = rhist[i - 1].after)
                => rhist[i].after = rhist[i - 1].after

\* a call that released the slot, directly followed by a call that found
\* it free, and a later call that found it locked
C25_Witness ==
    /\ Len(rhist) >= 3
    /\ rhist[1].before /\ ~rhist[1].after
    /\ ~rhist[2].before
    /\ \E i \in 1..Len(rhist) : rhist[i].before /\ i > 1 /\ ~rhist[i - 1].after

(***************************************************************************)
(* Status changes and the log file.                                         *)
(***************************************************************************)
\* C27: whenever the status of an existing job changes (by its worker, by a
\* crawler callback of kind status, or by the recovery pass), a line is
\* appended to the job's log file in the same step.
C27_StatusChangeLogged ==
    [][\A j \in Created : status'[j] # status[j] => log'[j] # log[j]]_vars

(***************************************************************************)
(* Who appends to a job's log file and to its compressed stream file: the   *)
(* worker of run_scrape_and_index for the user's latest job, and the        *)
(* request handler of the chat route, which extracts the class list on      *)
(* demand when classes.json holds none (src/app.py 2816-2829).              *)
(***************************************************************************)
MaxAppends == 4
MaxRecords == 2

\* positions at which the worker thread is executing the job
Running == {"crawl", "compress", "post"}

\* one appended line or record: the appending thread, and where the worker was
Written(by) == [by |-> by, at |-> wpc]

InitFiles ==
    /\ Init0
    /\ CompIdle
    /\ IndexIdle
    /\ SplitIdle
    /\ TruncIdle
    /\ ChatIdle
    /\ RelIdle
    /\ wpc = "queued"
    /\ flog = <<>>
    /\ fstream = <<>>
    /\ classes_file \in BOOLEAN
    /\ has_document \in BOOLEAN
    /\ hpc = "none"

\* the worker moves on and appends one line to the log through _update_job
WorkerLogs(to) ==
    /\ wpc' = to
    /\ flog' = Append(flog, Written("worker"))
    /\ UNCHANGED <<fstream, hpc>>
    /\ UNCHANGED nonFileVars

\* _wait_for_job_slot: "Acquired worker slot"
FileAcquire ==
    /\ wpc = "queued"
    /\ WorkerLogs("crawl")
    /\ UNCHANGED <<classes_file, has_document>>

\* a crawler callback of another kind than status or duo, run by the worker
FileCrawlerLine ==
    /\ wpc = "crawl"
    /\ Len(flog) < MaxAppends
    /\ WorkerLogs("crawl")
    /\ UNCHANGED <<classes_file, has_document>>

\* "Starting streaming compression"
FileStartCompress ==
    /\ wpc = "crawl"
    /\ WorkerLogs("compress")
    /\ UNCHANGED <<classes_file, has_document>>

\* stream_compress_corpus_blocks appends a header or a block to the stream
FileAppendRecord ==
    /\ wpc = "compress"
    /\ Len(fstream) < MaxRecords
    /\ fstream' = Append(fstream, Written("worker"))
    /\ UNCHANGED <<wpc, flog, classes_file, has_document, hpc>>
    /\ UNCHANGED nonFileVars

\* "Streaming compression complete"
FileCompleted ==
    /\ wpc = "compress"
    /\ WorkerLogs("post")
    /\ UNCHANGED <<classes_file, has_document>>

\* after completion: classes.json is written (with a list that may be
\* empty) or the extraction fails, the Document is persisted or not, and
\* the worker logs the outcome
FilePost ==
    /\ wpc = "post"
    /\ classes_file' \in BOOLEAN
    /\ has_document' \in {TRUE, has_document}
    /\ WorkerLogs("done")

\* chat route: no class in classes.json, and _load_context_text returns
\* text (the latest job's stream file, or the latest Document)
ChatRouteLoad ==
    /\ hpc = "none"
    /\ Len(flog) < MaxAppends
    /\ ~classes_file
    /\ (fstream # <<>> \/ has_document)
    /\ hpc' = "extract"
    /\ UNCHANGED <<wpc, flog, fstream, classes_file, has_document>>
    /\ UNCHANGED nonFileVars

\* extract_classes_list returned classes: classes.json is written and a
\* line is appended to the log of latest_job_for_user
ChatRouteExtracted ==
    /\ hpc = "extract"
    /\ hpc' = "none"
    /\ classes_file' = TRUE
    /\ flog' = Append(flog, Written("http"))
    /\ UNCHANGED <<wpc, fstream, has_document>>
    /\ UNCHANGED nonFileVars

\* extract_classes_list returned no class, or raised
ChatRouteNothing ==
    /\ hpc = "extract"
    /\ hpc' = "none"
    /\ UNCHANGED <<wpc, flog, fstream, classes_file, has_document>>
    /\ UNCHANGED nonFileVars

NextFiles ==
    \/ FileAcquire
    \/ FileCrawlerLine
    \/ FileStartCompress
    \/ FileAppendRecord
    \/ FileCompleted
    \/ FilePost
    \/ ChatRouteLoad
    \/ ChatRouteExtracted
    \/ ChatRouteNothing

SpecFiles == InitFiles /\ [][NextFiles]_vars

\* C26: every line of the job's log file and every record of its stream file
\* that was appended while the worker was executing the job was appended by
\* that worker thread.
C26_WorkerOwnsFiles ==
    /\ \A i \in 1..Len(flog) : flog[i].at \in Running => flog[i].by = "worker"
    /\ \A i \in 1..Len(fstream) : fstream[i].at \in Running => fstream[i].by = "worker"

(***************************************************************************)
(* The output budget of a block, its requests, and the blocks of a segment  *)
(* (SpecCompress).                                                          *)
(***************************************************************************)
\* a request for block blk of segment idx is in flight
InFlight == cpc \in {"chat", "rechat"}

\* estimated input tokens of the block in flight
InEst == estimate_tokens(BlockChars(segs[idx], block_tokens, blk))

\* in_est * r for r = min(1.0, 126000 / total): rounded down, and rounded
\* to the nearest integer
Floored(in_est, total) ==
    IF total <= TARGET_CORPUS_TOKENS THEN in_est
    ELSE MulDivFloor(in_est, TARGET_CORPUS_TOKENS, total)
Rounded(in_est, total) ==
    IF total <= TARGET_CORPUS_TOKENS THEN in_est
    ELSE (MulDivFloor(2 * in_est, TARGET_CORPUS_TOKENS, total) + 1) \div 2

\* C28: every request is made with max_tokens = min(16384, max(512,
\* round(in * r))), r = min(1.0, 126000 / total_tokens) being the same for
\* all blocks of the run.
C28_RoundedBudget ==
    InFlight =>
        max_out = Min(16384, Max(512, Rounded(InEst, TotalTokens(segs))))

\* C28, with the product rounded down: every request is made with
\* max_tokens = min(16384, max(512, floor(in * r))), r = min(1.0, 126000 /
\* total_tokens) being the same for all blocks of the run.
C28_FlooredBudget ==
    InFlight =>
        max_out = Min(16384, Max(512, Floored(InEst, TotalTokens(segs))))

\* a request whose budget lies strictly between the floor of 512 and the
\* cap, where rounding down and rounding to nearest differ
C28_Witness ==
    /\ InFlight
    /\ max_out > 512 /\ max_out < 16384
    /\ Rounded(InEst, TotalTokens(segs)) # Floored(InEst, TotalTokens(segs))

\* characters of the first n blocks of a segment
RECURSIVE SumBlockChars(_, _, _)
SumBlockChars(chars, bt, n) ==
    IF n = 0 THEN 0 ELSE BlockChars(chars, bt, n - 1) + SumBlockChars(chars, bt, n - 1)

\* the blocks of the corpus
AllBlocks ==
    {p \in (1..Len(segs)) \X (0..8) : p[2] < NumBlocks(segs[p[1]], block_tokens)}

\* the blocks of every segment are contiguous and cover it: all but the last
\* hold block_tokens tokens, the last holds the rest, none is empty
Partitioned ==
    \A i \in 1..Len(segs) :
        LET n == NumBlocks(segs[i], block_tokens)
        IN  /\ SumBlockChars(segs[i], block_tokens, n) = segs[i]
            /\ \A b \in 0..(n - 1) :
                  /\ BlockChars(segs[i], block_tokens, b) > 0
                  /\ b < n - 1 =>
                        BlockChars(segs[i], block_tokens, b) = block_tokens * CHARS_PER_TOKEN

\* the first request for a block is sent
SubmitStep == cpc = "block" /\ cpc' = "chat"

\* C29: every segment is cut into ceil(len / block_tokens) contiguous blocks
\* that cover it, only the last being shorter; no block is submitted twice
\* as a first request; when the function returns, every block has been
\* submitted and has its result in the stream.
C29_EveryBlockSubmitted ==
    /\ []Partitioned
    /\ [][SubmitStep => <<idx, blk>> \notin submitted]_vars
    /\ [](cpc = "returned" => \A p \in AllBlocks : p \in submitted /\ HasBlock(p))

\* C29, for the blocks that are submitted: every segment is cut into
\* ceil(len / block_tokens) contiguous blocks that cover it, only the last
\* being shorter; no block is submitted twice as a first request; when the
\* function returns, every block whose text is not blank has been submitted
\* and has its result in the stream, and a block whose text is blank was
\* skipped: not submitted, nothing appended for it.
C29_NonBlankBlocksSubmitted ==
    /\ []Partitioned
    /\ [][SubmitStep => <<idx, blk>> \notin submitted]_vars
    /\ [](cpc = "returned" =>
            /\ \A p \in AllBlocks \ blanks : p \in submitted /\ HasBlock(p)
            /\ \A p \in blanks : p \notin submitted /\ ~HasBlock(p))

\* the function returned for a corpus with a segment of several blocks, a
\* shorter last block and a blank block
C29_Witness ==
    /\ cpc = "returned"
    /\ blanks # {}
    /\ block_tokens = 25000
    /\ \E p \in AllBlocks :
          /\ HasBlock(p)
          /\ BlockChars(segs[p[1]], block_tokens, p[2]) < block_tokens * CHARS_PER_TOKEN
          /\ p[2] > 1

\* a block's result is appended to the stream
AppendStep == InFlight /\ cpc' = "block" /\ Len(stream') = Len(stream) + 1

\* C30: at most two requests are made for a block; the second one is made
\* exactly when the estimated tokens of the first response exceed the
\* max_tokens of the request; the text appended is then the second response;
\* there is no third request.
C30_AtMostOneRewrite ==
    [][/\ calls' <= 2
       /\ (cpc' = "rechat" => (cpc = "chat" /\ calls = 1 /\ calls' = 2 /\ first_out' > max_out))
       /\ (cpc = "rechat" => calls' = calls)
       /\ (AppendStep =>
             /\ (calls = 2 <=> first_out' > max_out)
             /\ (calls = 2 => cpc = "rechat")
             /\ (calls = 1 => cpc = "chat"))]_vars

\* a block was appended after a corrective request, the first response
\* having exceeded the budget
C30_Witness ==
    /\ cpc = "block"
    /\ calls = 2
    /\ first_out > max_out
    /\ HasBlock(<<idx, blk - 1>>)

\* C31: when there is no segment, or the segments hold no token at all, no
\* summarization request is made, no course delimiter is written and the
\* stream file stays empty.
C31_NothingToCompress ==
    (segs = <<>> \/ TotalTokens(segs) = 0) =>
        (stream = <<>> /\ submitted = {} /\ calls = 0)

\* the function returned for segments that hold no token
C31_Witness ==
    /\ cpc \in {"returned", "done"}
    /\ segs # <<>>
    /\ TotalTokens(segs) = 0

\* record b may directly follow record a in a well-formed stream
Follows(a, b) ==
    \/ a.k = "START" /\ b.k \in {"BLOCK", "END"} /\ b.seg = a.seg
    \/ a.k = "BLOCK" /\ b.k = "BLOCK" /\ b.seg = a.seg /\ b.blk > a.blk
    \/ a.k = "BLOCK" /\ b.k = "END" /\ b.seg = a.seg
    \/ a.k = "END" /\ b.k = "START" /\ b.seg = a.seg + 1

\* C32: at every moment the stream is a prefix of START(1), blocks(1),
\* END(1), START(2), ...: one START before a segment's blocks, one END after
\* them, delimiters of different segments neither nested nor interleaved;
\* after a normal return every START has its END.
C32_DelimitersWellNested ==
    /\ stream # <<>> => (stream[1].k = "START" /\ stream[1].seg = 1)
    /\ \A n \in 1..(Len(stream) - 1) : Follows(stream[n], stream[n + 1])
    /\ (cpc = "returned" /\ stream # <<>>) =>
          /\ stream[Len(stream)].k = "END"
          /\ stream[Len(stream)].seg = Len(segs)

\* a normal return after three segments, one of them of several blocks
C32_Witness ==
    /\ cpc = "returned"
    /\ Len(segs) >= 3
    /\ \E n \in BlockPositions : stream[n].blk >= 2
    /\ Cardinality({n \in DOMAIN stream : stream[n].k = "END"}) = Len(segs)

(***************************************************************************)
(* The GLOBAL label and the lines of the segments (SpecSplit).              *)
(***************************************************************************)
\* the positions 1..n, in order
RECURSIVE UpTo(_)
UpTo(n) == IF n = 0 THEN <<>> ELSE Append(UpTo(n - 1), n)

\* a stream without any course URL, with a non-blank line, gives one segment
\* labeled GLOBAL that holds all its lines
UnmarkedStreamIsGlobal ==
    (/\ \A m \in 1..Len(raw) : raw[m].cid = ""
     /\ \E m \in 1..Len(raw) : ~raw[m].blank)
    => /\ Len(parts) = 1
       /\ parts[1].course_id = "GLOBAL"
       /\ parts[1].text = Strip(UpTo(Len(raw)))

\* C33: a returned segment is labeled GLOBAL only if no line up to its end
\* carries a course id; a stream with no course URL and a non-blank line
\* gives exactly one segment, labeled GLOBAL, with all its lines.
C33_GlobalOnlyIfNeverOpened ==
    spc = "returned" =>
        /\ \A i \in 1..Len(parts) :
              parts[i].course_id = "GLOBAL" =>
                  \A m \in 1..closed[i].at : raw[m].cid = ""
        /\ UnmarkedStreamIsGlobal

\* C33, for the course open at the end: a returned segment is labeled GLOBAL
\* only if it is the trailing segment and none of its lines carries a course
\* id (no course is open when the stream ends, none was ever opened or each
\* was closed by its course-done line); a stream with no course URL and a
\* non-blank line gives exactly one segment, labeled GLOBAL, with all its
\* lines.
C33_GlobalOnlyIfNoneOpenAtEnd ==
    spc = "returned" =>
        /\ \A i \in 1..Len(parts) :
              parts[i].course_id = "GLOBAL" =>
                  /\ i = Len(parts)
                  /\ closed[i].by = "end"
                  /\ \A k \in 1..Len(parts[i].text) : raw[parts[i].text[k]].cid = ""
        /\ UnmarkedStreamIsGlobal

\* a course segment closed by its course-done line, then a trailing GLOBAL
\* segment
C33_Witness ==
    /\ spc = "returned"
    /\ Len(parts) = 2
    /\ parts[1].course_id \in CourseIds
    /\ closed[1].by = "done"
    /\ parts[2].course_id = "GLOBAL"
    /\ parts[2].text # <<>>

\* the lines of all returned segments, in output order
RECURSIVE Flatten(_)
Flatten(ps) == IF ps = <<>> THEN <<>> ELSE Head(ps).text \o Flatten(Tail(ps))

\* last line of segment i, and its first line
SegEnd(i) == IF closed[i].by = "switch" THEN closed[i].at - 1 ELSE closed[i].at
SegStart(i) == IF i = 1 THEN 1 ELSE SegEnd(i - 1) + 1

\* the positions a..b, in order
Range(a, b) == [k \in 1..(b - a + 1) |-> a + k - 1]

\* C34: the returned segments partition the lines of the stream: the
\* segments cover consecutive runs of lines that follow one another and
\* reach the last line, each segment holds its run without the
\* whitespace-only lines at its two ends, so every non-blank line is in
\* exactly one segment and the lines come out in input order.
C34_SegmentsPartitionLines ==
    spc = "returned" =>
        LET all == Flatten(parts)
        IN  /\ \A i \in 1..Len(parts) :
                  /\ SegStart(i) <= SegEnd(i)
                  /\ parts[i].text = Strip(Range(SegStart(i), SegEnd(i)))
            /\ Len(parts) > 0 => SegEnd(Len(parts)) = Len(raw)
            /\ (Len(parts) = 0) = (raw = <<>>)
            /\ \A j, k \in 1..Len(all) : j < k => all[j] < all[k]
            /\ \A m \in 1..Len(raw) :
                  ~raw[m].blank => \E k \in 1..Len(all) : all[k] = m

\* three segments out of four lines, a whitespace-only line stripped
C34_Witness ==
    /\ spc = "returned"
    /\ Len(raw) = 4
    /\ Len(parts) = 3
    /\ Len(Flatten(parts)) = 3

(***************************************************************************)
(* Running statuses and the slot, within one process run.                   *)
(***************************************************************************)
RunningStatuses == {"starting", "logging_in", "compressing"}

\* C35: within one process run, a job whose status is starting, logging_in
\* or compressing has a worker that holds JOB_LOCK, and no other job holds
\* the slot meanwhile.
C35_RunningStatusHoldsSlot ==
    \A j \in Jobs :
        status[j] \in RunningStatuses =>
            /\ JOB_LOCK
            /\ HoldsSlot(j)
            /\ \A i \in Jobs \ {j} : ~HoldsSlot(i)

(***************************************************************************)
(* One process run in which the status update of _wait_for_job_slot may     *)
(* raise as well.  _wait_for_job_slot is called before the worker's try     *)
(* statement, so the exception ends the worker thread.                      *)
(***************************************************************************)
\* _update_job raises inside _wait_for_job_slot, right after the slot was
\* acquired or after it was found busy: nothing is written, db is closed,
\* the exception leaves worker()
WaitUpdateRaises(j) ==
    /\ pc[j] \in {"acquired", "contended"}
    /\ pc' = [pc EXCEPT ![j] = "died"]
    /\ UNCHANGED <<status, log, kind, owner, exc, JOB_LOCK, njobs, sched, documents, environ>>
    /\ UNCHANGED nonLifeVars

NextLeak == NextFair \/ (\E j \in Jobs : WaitUpdateRaises(j))

LeakSpec == Init /\ [][NextLeak]_vars

\* C36: whenever the slot is held, a live worker holds it (and releases it
\* on its way out), also when the status update that follows the
\* acquisition raised.
C36_HeldSlotHasLiveHolder ==
    JOB_LOCK => \E j \in Jobs : HoldsSlot(j)

(***************************************************************************)
(* What a completed job's stream holds (SpecChat).                          *)
(***************************************************************************)
\* C37: the stream of a completed job holds no retries-exhausted sentinel:
\* the string openai_chat returns after five failed attempts is never
\* appended as a compressed block.
C37_NoSentinelInStream ==
    caller_status = "completed" => appended # SENTINEL

(***************************************************************************)
(* Where the chat route takes its context from (SpecFiles).                 *)
(***************************************************************************)
\* _load_context_text returns the content of the latest job's stream file
LoadsFromStream == hpc = "none" /\ hpc' = "extract" /\ fstream # <<>>

\* C38: when the chat route loads its context from a job's stream file, the
\* job is completed (its worker is past the compression); it never reads
\* the partly written stream of a job that is still compressing.
C38_ContextFromCompletedJob ==
    [][LoadsFromStream => wpc \in {"post", "done"}]_vars

\* worker positions of run_scrape_and_index after it set the OCEAN_* variables
\* and before it read OCEAN_SCRAPE_STREAM_PATH back
SetNotRead ==
    {"crawl", "c_check", "c_login", "c_code", "c_duo", "c_disc", "c_courses",
     "crawled_none", "crawled_ok"}

\* os.environ.get("OCEAN_SCRAPE_STREAM_PATH", ...) after the crawler returned
ReadsStreamPath(j) == pc[j] = "crawled_ok" /\ pc'[j] = "compress"

OwnEnviron(j) ==
    /\ environ.OCEAN_SCRAPE_STREAM_PATH = _scrape_stream_file_path(owner[j], j)
    /\ environ.OCEAN_PERSIST_SESSION_DIR = _session_dir(owner[j])
    /\ environ.OCEAN_REUSE_SESSION_ONLY = (kind[j] = "auto")

\* C39: from the moment a job has set the process-wide OCEAN_* variables to the
\* moment it reads OCEAN_SCRAPE_STREAM_PATH back, the variables hold that job's
\* own values, whatever the other jobs do; the path it reads is the path of its
\* own (user_id, job_id).
C39_EnvironIsOwnJobs ==
    /\ [](\A j \in Created : pc[j] \in SetNotRead => OwnEnviron(j))
    /\ [][\A j \in Created : ReadsStreamPath(j) => OwnEnviron(j)]_vars

\* a second job of the same kind of run is waiting for the slot while the first
\* is past its read; and one that set the variables after an earlier job did
C39_Witness ==
    \E j, k \in Created :
        /\ j # k
        /\ pc[j] = "compress" /\ kind[j] \in {"scrape", "auto"} /\ OwnEnviron(j)
        /\ kind[k] \in {"scrape", "auto"}
        /\ pc[k] \in {"poll", "done"}

(***************************************************************************)
(* The scheduler thread under fair scheduling: its loop wakes every 60     *)
(* seconds, so a record that stays due and enqueueable is reached. DueUser *)
(* is a user whose AutoScrape record is enabled and due and whose session  *)
(* directory is warm, for as long as no job has been enqueued for it.      *)
(***************************************************************************)
DueUser == "u1"

SchedulerSpec ==
    /\ Init /\ [][NextRecovery]_vars
    /\ Fairness
    /\ WF_vars(_resume_interrupted_jobs)
    /\ WF_vars(SchedulerEnqueues(DueUser))

EnqueuedByScheduler(u) == \E j \in Created : kind[j] = "auto" /\ owner[j] = u

\* C40: once the scheduler loop runs, a user with auto-scrape enabled, a warm
\* session and a due next_run_at eventually gets a job enqueued by the loop
\* (as long as the model's bound on the number of jobs leaves room for one),
\* in particular after a restart interrupted a job and the boot-time recovery
\* pass has run, whether or not it re-marked an earlier job of that user as
\* queued.
C40_DueUserEnqueued ==
    (/\ sched = "loop"
     /\ \E j \in Created : pc[j] = "dead"
     /\ njobs < NumJobs
     /\ ~EnqueuedByScheduler(DueUser))
        ~> (EnqueuedByScheduler(DueUser) \/ njobs = NumJobs)

====
